---------------------------- MODULE Spec2Model ----------------------------
(***************************************************************************)
(* Prisma AIRS scanner: the scan engine (PrismaAIRS) of the repository in  *)
(* its two variants,                                                       *)
(*   "sdk"  : src/prisma-airs-plugin/src/prisma_airs_skill/scan.py         *)
(*            (in-process SDK call, try/except around the call), and       *)
(*   "http" : src/scripts/scan.py                                          *)
(*            (HTTP POST with a retry loop, no try/except in scan).        *)
(* (src/src/prisma_airs_skill/scan.py is the sdk variant before tr_id,     *)
(* session_id and metadata were added.)  The per-identity rate limiter     *)
(* (_check_rate_limit) is the same code in all of them.                    *)
(*                                                                         *)
(* The configuration audit (run_audit of audit.py, in its two copies) is    *)
(* modelled by SpecAudit.                                                  *)
(*                                                                         *)
(* Time is the value of time.time(), counted in whole ticks; the clock     *)
(* never runs backwards.                                                   *)
(***************************************************************************)
EXTENDS Integers, Sequences, FiniteSets, TLC

VARIABLES
    variant,        \* "sdk" or "http": which scan.py the engine is
    config,         \* self.config, the resolved configuration (immutable)
    clock,          \* the last value time.time() returned
    rate_limits,    \* self.rate_limits: dict user_id -> list of timestamps
    checks,         \* history: the _check_rate_limit calls made (in scan: by this call)
    threads,        \* concurrent callers of _check_rate_limit, per thread
    call,           \* the scan call in progress (its position and locals)
    path,           \* history: the stages the scan call has entered
    sleeps,         \* history: the time.sleep() arguments of the call
    posts,          \* history: the transport invocations of the call
    results,        \* history: the ScanResults the call has returned
    audit_log,      \* the records _log_scan has written
    parse_in,       \* input of a direct _parse_response call
    parse_out,      \* what that call returned
    merge_in,       \* arguments of a direct _deep_merge call
    merge_out,      \* what that call returned
    handlers,       \* the handlers of the process-wide logger "prisma_airs"
    scans,          \* history: the scan calls whose records audit_log holds
    audit,          \* the run of audit.py: position and locals of run_audit
    generated       \* history: the direct _generate_scan_id calls made

vars == <<variant, config, clock, rate_limits, checks, threads, call, path,
          sleeps, posts, results, audit_log, parse_in, parse_out,
          merge_in, merge_out, handlers, scans, audit,
          generated>>

(***************************************************************************)
(* Bounds of the model.                                                    *)
(***************************************************************************)
MaxTime == 4          \* the clock runs over 0..MaxTime
MaxRequests == 2      \* rate_limit.max_requests ranges over 0..MaxRequests
MaxWindow == 2        \* rate_limit.window_seconds ranges over 1..MaxWindow
MaxChecks == 4        \* direct _check_rate_limit calls in one history

Identities == {"u1", "unknown"}

\* Python's None, where a string may stand and where an object may stand.
None == "None"
NoObject == [none |-> TRUE]

EmptyDict == [k \in {} |-> <<>>]

Elements(seq) == {seq[i] : i \in 1..Len(seq)}

(***************************************************************************)
(* The rate limiter.                                                       *)
(***************************************************************************)
RateConfigs ==
    [enabled : BOOLEAN, max_requests : 0..MaxRequests, window_seconds : 1..MaxWindow]

\* The list comprehension [t for t in ... if now - t < window].
PruneKeepsBoundary(stamps, now, window) == SelectSeq(stamps, LAMBDA t : now - t <= window)

Prune(stamps, now, window) == SelectSeq(stamps, LAMBDA t : now - t < window)

\* len(self.rate_limits[user_id]) >= max_requests
OverLimitOffByOne(stamps, max_requests) == Len(stamps) > max_requests

OverLimit(stamps, max_requests) == Len(stamps) >= max_requests

\* _check_rate_limit(user_id) run as a whole at time now: what it returns
\* (TRUE = rejected) and the rate_limits it leaves.
check_rate_limit_admit_unrecorded(rate_config, limits, user_id, now) ==
    IF ~rate_config.enabled
    THEN [rejected |-> FALSE, rate_limits |-> limits]
    ELSE LET present == IF user_id \in DOMAIN limits
                        THEN limits
                        ELSE (user_id :> <<>>) @@ limits
             pruned  == Prune(present[user_id], now, rate_config.window_seconds)
             stored  == [present EXCEPT ![user_id] = pruned]
         IN  [rejected |-> OverLimit(pruned, rate_config.max_requests), rate_limits |-> stored]

check_rate_limit_one_window(rate_config, limits, user_id, now) ==
    IF ~rate_config.enabled
    THEN [rejected |-> FALSE, rate_limits |-> limits]
    ELSE LET present == IF "unknown" \in DOMAIN limits
                        THEN limits
                        ELSE ("unknown" :> <<>>) @@ limits
             pruned  == Prune(present["unknown"], now, rate_config.window_seconds)
             stored  == [present EXCEPT !["unknown"] = pruned]
         IN  IF OverLimit(pruned, rate_config.max_requests)
             THEN [rejected |-> TRUE, rate_limits |-> stored]
             ELSE [rejected |-> FALSE,
                   rate_limits |-> [stored EXCEPT !["unknown"] = Append(pruned, now)]]

check_rate_limit_records_rejected(rate_config, limits, user_id, now) ==
    IF ~rate_config.enabled
    THEN [rejected |-> FALSE, rate_limits |-> limits]
    ELSE LET present == IF user_id \in DOMAIN limits
                        THEN limits
                        ELSE (user_id :> <<>>) @@ limits
             pruned  == Prune(present[user_id], now, rate_config.window_seconds)
             stored  == [present EXCEPT ![user_id] = Append(pruned, now)]
         IN  [rejected |-> OverLimit(pruned, rate_config.max_requests), rate_limits |-> stored]

check_rate_limit_key_first(rate_config, limits, user_id, now) ==
    LET present == IF user_id \in DOMAIN limits
                   THEN limits
                   ELSE (user_id :> <<>>) @@ limits
        pruned  == Prune(present[user_id], now, rate_config.window_seconds)
        stored  == [present EXCEPT ![user_id] = pruned]
    IN  IF ~rate_config.enabled
        THEN [rejected |-> FALSE, rate_limits |-> present]
        ELSE IF OverLimit(pruned, rate_config.max_requests)
             THEN [rejected |-> TRUE, rate_limits |-> stored]
             ELSE [rejected |-> FALSE,
                   rate_limits |-> [stored EXCEPT ![user_id] = Append(pruned, now)]]

check_rate_limit(rate_config, limits, user_id, now) ==
    IF ~rate_config.enabled
    THEN [rejected |-> FALSE, rate_limits |-> limits]
    ELSE LET present == IF user_id \in DOMAIN limits
                        THEN limits
                        ELSE (user_id :> <<>>) @@ limits
             pruned  == Prune(present[user_id], now, rate_config.window_seconds)
             stored  == [present EXCEPT ![user_id] = pruned]
         IN  IF OverLimit(pruned, rate_config.max_requests)
             THEN [rejected |-> TRUE, rate_limits |-> stored]
             ELSE [rejected |-> FALSE,
                   rate_limits |-> [stored EXCEPT ![user_id] = Append(pruned, now)]]

NoCall == [stage |-> "IDLE"]
NoParse == [kind |-> "none"]
NoMerge == [kind |-> "none"]
NoAudit == [stage |-> "IDLE"]

(***************************************************************************)
(* SpecRate: direct, sequential calls of _check_rate_limit on one engine   *)
(* (as tests/test_scan.py TestPrismaAIRSRateLimiting makes them).          *)
(***************************************************************************)
InitRate ==
    /\ variant \in {"sdk", "http"}
    /\ \E rc \in RateConfigs : config = [rate_limit |-> rc]
    /\ clock = 0
    /\ rate_limits = EmptyDict
    /\ checks = <<>>
    /\ threads = EmptyDict
    /\ call = NoCall
    /\ path = <<>>
    /\ sleeps = <<>>
    /\ posts = <<>>
    /\ results = <<>>
    /\ audit_log = <<>>
    /\ parse_in = NoParse
    /\ parse_out = NoParse
    /\ merge_in = NoMerge
    /\ merge_out = NoMerge
    /\ handlers = <<>>
    /\ scans = 0
    /\ audit = NoAudit
    /\ generated = <<>>

CheckRateLimit(user_id, now) ==
    /\ Len(checks) < MaxChecks
    /\ LET r == check_rate_limit(config.rate_limit, rate_limits, user_id, now)
       IN  /\ rate_limits' = r.rate_limits
           /\ checks' = Append(checks, [user_id |-> user_id, now |-> now,
                                        rejected |-> r.rejected])
    /\ clock' = now
    /\ UNCHANGED <<variant, config, threads, call, path, sleeps, posts, results,
                   audit_log, parse_in, parse_out, merge_in, merge_out, handlers, scans,
                   audit, generated>>

NextRate ==
    \E user_id \in Identities : \E now \in clock..MaxTime : CheckRateLimit(user_id, now)

SpecRate == InitRate /\ [][NextRate]_vars

\* The calls made for user_id, as the indices of checks.
ChecksOf(user_id) == {i \in 1..Len(checks) : checks[i].user_id = user_id}

\* The position of call i among the calls of its identity (1 = the first).
CallNumber(i) == Cardinality({j \in ChecksOf(checks[i].user_id) : j <= i})

FirstCheck(i) == CHOOSE j \in ChecksOf(checks[i].user_id) :
                     \A k \in ChecksOf(checks[i].user_id) : j <= k

\* C1: with the limiter enabled and max_requests >= 1, starting from an empty
\* window, every call of an identity made within window_seconds of its first
\* call is admitted while it is among the first max_requests calls, the
\* (max_requests + 1)-th such call is rejected, and a call made when every
\* earlier timestamp of the identity is older than window_seconds is admitted.
C1_AdmitThenRejectThenRecover ==
    (config.rate_limit.enabled /\ config.rate_limit.max_requests >= 1) =>
    \A i \in 1..Len(checks) :
        LET rc == config.rate_limit
            within == checks[i].now - checks[FirstCheck(i)].now < rc.window_seconds
            aged == \A j \in ChecksOf(checks[i].user_id) :
                        j < i => checks[i].now - checks[j].now > rc.window_seconds
        IN  /\ (within /\ CallNumber(i) <= rc.max_requests) => ~checks[i].rejected
            /\ (within /\ CallNumber(i) = rc.max_requests + 1) => checks[i].rejected
            /\ aged => ~checks[i].rejected

\* An identity used up its quota, was rejected inside the window, and was
\* admitted again after the window had passed.
C1_Witness ==
    /\ config.rate_limit.enabled
    /\ config.rate_limit.max_requests >= 1
    /\ \E i, j \in 1..Len(checks) :
        /\ i < j
        /\ checks[i].user_id = checks[j].user_id
        /\ CallNumber(i) = config.rate_limit.max_requests + 1
        /\ checks[i].now - checks[FirstCheck(i)].now < config.rate_limit.window_seconds
        /\ checks[i].rejected
        /\ \A k \in ChecksOf(checks[j].user_id) :
               k < j => checks[j].now - checks[k].now > config.rate_limit.window_seconds
        /\ ~checks[j].rejected

\* C22: with rate limiting disabled, _check_rate_limit admits every call of
\* every identity, however many were made, and records nothing in the
\* per-identity window map (rate_limits stays the empty dict it started as).
C22_DisabledAdmitsAllRecordsNothing ==
    ~config.rate_limit.enabled =>
        /\ \A i \in 1..Len(checks) : ~checks[i].rejected
        /\ rate_limits = EmptyDict

\* The limiter is off, max_requests is 0, and both identities were checked,
\* one of them more than once.
C22_Witness ==
    /\ ~config.rate_limit.enabled
    /\ config.rate_limit.max_requests = 0
    /\ Len(checks) = MaxChecks
    /\ \A user_id \in Identities : ChecksOf(user_id) # {}
    /\ \A i \in 1..Len(checks) : ~checks[i].rejected

\* A _check_rate_limit call has just been made with the limiter enabled.
CheckMade ==
    /\ config.rate_limit.enabled
    /\ Len(checks') = Len(checks) + 1

\* The identity's window before that call, and what the call's pruning left
\* of it (the window after the call, without the timestamp an admitted call
\* appends).
WindowBefore ==
    LET user_id == checks'[Len(checks')].user_id
    IN  IF user_id \in DOMAIN rate_limits THEN rate_limits[user_id] ELSE <<>>

WindowKept ==
    LET c == checks'[Len(checks')]
        after == rate_limits'[c.user_id]
    IN  IF c.rejected THEN after ELSE SubSeq(after, 1, Len(after) - 1)

\* C24: an admission check made at time now evicts from the identity's window
\* precisely the timestamps strictly older than the window (now - t >
\* window_seconds) and keeps every other one, in order, including one whose
\* age is exactly window_seconds, whatever the time now is.
C24_EvictsStrictlyOlder ==
    [][CheckMade =>
          LET now == checks'[Len(checks')].now
          IN  WindowKept = SelectSeq(WindowBefore,
                               LAMBDA t : ~(now - t > config.rate_limit.window_seconds))]_vars

\* C24 as the code has it: the check evicts precisely the timestamps whose age
\* is at least window_seconds (now - t >= window_seconds) and keeps every
\* younger one, in order; a timestamp whose age is exactly window_seconds is
\* evicted.  Eviction depends on each timestamp's age alone.
C24_EvictsAtLeastWindowOld ==
    [][CheckMade =>
          LET now == checks'[Len(checks')].now
          IN  WindowKept = SelectSeq(WindowBefore,
                               LAMBDA t : ~(now - t >= config.rate_limit.window_seconds))]_vars

\* The last check of an identity evicted a timestamp whose age was exactly
\* window_seconds and kept a younger one: the window was not reset.
C24_Witness ==
    /\ config.rate_limit.enabled
    /\ Len(checks) >= 3
    /\ LET c == checks[Len(checks)]
           window == config.rate_limit.window_seconds
       IN  /\ \E i \in ChecksOf(c.user_id) :
                  /\ i < Len(checks)
                  /\ ~checks[i].rejected
                  /\ c.now - checks[i].now = window
                  /\ checks[i].now \notin Elements(rate_limits[c.user_id])
           /\ \E j \in ChecksOf(c.user_id) :
                  /\ j < Len(checks)
                  /\ ~checks[j].rejected
                  /\ c.now - checks[j].now \in 1..(window - 1)
                  /\ checks[j].now \in Elements(rate_limits[c.user_id])

\* The timestamps of a window that are younger than window_seconds at time
\* now: what is left of the window "after pruning".
Younger(stamps, now) ==
    SelectSeq(stamps, LAMBDA t : now - t < config.rate_limit.window_seconds)

\* C25: an admission check that rejects records nothing (the identity's window
\* after the call is its window before the call, pruned); one that admits
\* appends exactly one timestamp, the current time, to the pruned window.
C25_RejectRecordsNothingAdmitAppendsNow ==
    [][CheckMade =>
          LET c == checks'[Len(checks')]
              after == rate_limits'[c.user_id]
              pruned == Younger(WindowBefore, c.now)
          IN  IF c.rejected
              THEN after = pruned
              ELSE after = pruned \o <<c.now>>]_vars

\* An identity with a non-empty window was rejected, and another check was
\* admitted onto a non-empty window.
C25_Witness ==
    /\ config.rate_limit.enabled
    /\ \E i, j, k \in 1..Len(checks) :
          /\ i < j /\ j < k
          /\ checks[i].user_id = checks[j].user_id
          /\ checks[j].user_id = checks[k].user_id
          /\ ~checks[i].rejected
          /\ ~checks[j].rejected
          /\ checks[j].now - checks[i].now < config.rate_limit.window_seconds
          /\ checks[k].rejected
          /\ rate_limits[checks[k].user_id] # <<>>
          /\ checks[k].now \notin Elements(rate_limits[checks[k].user_id])

(***************************************************************************)
(* SpecConc: several threads inside _check_rate_limit of one engine at the *)
(* same time.  The method takes no lock, so a thread switch can fall       *)
(* between any two of its statements' loads and stores; each action below  *)
(* is one such step.                                                       *)
(***************************************************************************)
MaxThreads == 2       \* threads calling _check_rate_limit concurrently

Threads == 1..MaxThreads

InitConc ==
    /\ variant \in {"sdk", "http"}
    /\ \E rc \in RateConfigs : config = [rate_limit |-> rc]
    /\ clock = 0
    /\ rate_limits = EmptyDict
    /\ checks = <<>>
    /\ threads = [t \in Threads |-> [pc |-> "idle"]]
    /\ call = NoCall
    /\ path = <<>>
    /\ sleeps = <<>>
    /\ posts = <<>>
    /\ results = <<>>
    /\ audit_log = <<>>
    /\ parse_in = NoParse
    /\ parse_out = NoParse
    /\ merge_in = NoMerge
    /\ merge_out = NoMerge
    /\ handlers = <<>>
    /\ scans = 0
    /\ audit = NoAudit
    /\ generated = <<>>

ConcFrame == UNCHANGED <<variant, config, checks, call, path, sleeps, posts,
                         results, audit_log, parse_in, parse_out, merge_in, merge_out,
                         handlers, scans, audit, generated>>

\* Lines 200-206: the enabled test and now = time.time().
ThreadEnter(t, user_id, now) ==
    /\ threads[t].pc = "idle"
    /\ clock' = now
    /\ threads' = [threads EXCEPT ![t] =
          IF ~config.rate_limit.enabled
          THEN [pc |-> "done", user_id |-> user_id, now |-> now, rejected |-> FALSE,
                recorded |-> FALSE]
          ELSE [pc |-> "test_key", user_id |-> user_id, now |-> now]]
    /\ UNCHANGED rate_limits
    /\ ConcFrame

\* Line 208: user_id not in self.rate_limits.
ThreadTestKey(t) ==
    /\ threads[t].pc = "test_key"
    /\ threads' = [threads EXCEPT ![t].pc =
          IF threads[t].user_id \in DOMAIN rate_limits THEN "load" ELSE "init_key"]
    /\ UNCHANGED <<clock, rate_limits>>
    /\ ConcFrame

\* Line 209: self.rate_limits[user_id] = [].
ThreadInitKey(t) ==
    /\ threads[t].pc = "init_key"
    /\ rate_limits' = (threads[t].user_id :> <<>>) @@ rate_limits
    /\ threads' = [threads EXCEPT ![t].pc = "load"]
    /\ UNCHANGED clock
    /\ ConcFrame

\* Line 211, right-hand side: the list comprehension over the current list.
ThreadLoad(t) ==
    /\ threads[t].pc = "load"
    /\ threads' = [threads EXCEPT ![t] =
          [pc |-> "store", user_id |-> @.user_id, now |-> @.now,
           pruned |-> Prune(rate_limits[@.user_id], @.now,
                            config.rate_limit.window_seconds)]]
    /\ UNCHANGED <<clock, rate_limits>>
    /\ ConcFrame

\* Line 211, the assignment of the new list.
ThreadStore(t) ==
    /\ threads[t].pc = "store"
    /\ rate_limits' = [rate_limits EXCEPT ![threads[t].user_id] = threads[t].pruned]
    /\ threads' = [threads EXCEPT ![t] =
          [pc |-> "test_len", user_id |-> @.user_id, now |-> @.now]]
    /\ UNCHANGED clock
    /\ ConcFrame

\* Lines 213-214: the limit test, return True when over the limit.
ThreadTestLen(t) ==
    /\ threads[t].pc = "test_len"
    /\ threads' = [threads EXCEPT ![t] =
          IF OverLimit(rate_limits[@.user_id], config.rate_limit.max_requests)
          THEN [pc |-> "done", user_id |-> @.user_id, now |-> @.now,
                rejected |-> TRUE, recorded |-> FALSE]
          ELSE [pc |-> "append", user_id |-> @.user_id, now |-> @.now]]
    /\ UNCHANGED <<clock, rate_limits>>
    /\ ConcFrame

\* Lines 216-217: append(now), return False.
ThreadAppend(t) ==
    /\ threads[t].pc = "append"
    /\ rate_limits' = [rate_limits EXCEPT ![threads[t].user_id] =
                          Append(@, threads[t].now)]
    /\ threads' = [threads EXCEPT ![t] =
          [pc |-> "done", user_id |-> @.user_id, now |-> @.now,
           rejected |-> FALSE, recorded |-> TRUE]]
    /\ UNCHANGED clock
    /\ ConcFrame

NextConc ==
    \E t \in Threads :
        \/ \E user_id \in Identities : \E now \in clock..MaxTime :
               ThreadEnter(t, user_id, now)
        \/ ThreadTestKey(t)
        \/ ThreadInitKey(t)
        \/ ThreadLoad(t)
        \/ ThreadStore(t)
        \/ ThreadTestLen(t)
        \/ ThreadAppend(t)

SpecConc == InitConc /\ [][NextConc]_vars

\* The threads whose call for user_id returned False after recording its timestamp.
AdmittedThreads(user_id) ==
    {t \in Threads : /\ threads[t].pc = "done"
                     /\ threads[t].user_id = user_id
                     /\ threads[t].recorded}

Occurrences(stamps, x) == Cardinality({i \in 1..Len(stamps) : stamps[i] = x})

AllThreadsDone == \A t \in Threads : threads[t].pc = "done"

\* At most max_requests of the admitted calls of one identity fall within one window.
C2_AtMostMaxAdmitted ==
    \A user_id \in Identities : \A S \in SUBSET AdmittedThreads(user_id) :
        (\A a, b \in S : threads[a].now - threads[b].now < config.rate_limit.window_seconds)
            => Cardinality(S) <= config.rate_limit.max_requests

\* Once every call has returned, each admitted call's timestamp that no call had
\* reason to prune is in the identity's list, once per call that recorded it.
C2_NoTimestampLost ==
    AllThreadsDone =>
    \A user_id \in Identities : \A t \in AdmittedThreads(user_id) :
        (\A o \in Threads : threads[o].user_id = user_id =>
              threads[o].now - threads[t].now < config.rate_limit.window_seconds)
        => /\ user_id \in DOMAIN rate_limits
           /\ Occurrences(rate_limits[user_id], threads[t].now) >=
                Cardinality({o \in AdmittedThreads(user_id) : threads[o].now = threads[t].now})

\* C2: concurrent _check_rate_limit calls for one identity behave as if the
\* prune / count-check / append sequence were one critical section: never more
\* than max_requests admitted within one window, no admitted timestamp lost.
C2_CriticalSection == C2_AtMostMaxAdmitted /\ C2_NoTimestampLost

(***************************************************************************)
(* ScanResult and the response classifier (_parse_response).               *)
(***************************************************************************)
\* Severity.<name>.value
SeverityValue == [SAFE |-> 0, LOW |-> 1, MEDIUM |-> 2, HIGH |-> 3, CRITICAL |-> 4]

\* A ScanResult.  error is the sdk variant's error field and the http variant's
\* details["error"]; source says which code built the result.
ScanResult(action, severity, categories, error, source) ==
    [action |-> action, severity |-> severity, categories |-> categories,
     error |-> error, source |-> source]

\* d.get(key) on a dict of detection flags: a missing key is falsy.
Flag(d, key) == IF key \in DOMAIN d THEN d[key] ELSE FALSE

\* any(d.values())
AnyFlag(d) == \E k \in DOMAIN d : d[k]

\* The list that appends name when the flag is set.
AppendIf(categories, flag, name) == IF flag THEN Append(categories, name) ELSE categories

\* x or default
OrDefault(x, default) == IF x = None \/ x = "" THEN default ELSE x

(*------------------------- sdk variant ----------------------------------*)
\* prompt_detected of the sdk variant (lines 339-345): {} when the response has none.
SdkPromptDetected(resp) ==
    IF resp.prompt_detected = NoObject THEN EmptyDict
    ELSE [k \in {"injection", "dlp", "url_cats"} |-> Flag(resp.prompt_detected, k)]

\* response_detected of the sdk variant (lines 347-352).
SdkResponseDetected(resp) ==
    IF resp.response_detected = NoObject THEN EmptyDict
    ELSE [k \in {"dlp", "url_cats"} |-> Flag(resp.response_detected, k)]

\* Lines 354-368.
SdkCategoriesNoSafe(resp) ==
    LET pd == SdkPromptDetected(resp)
        rd == SdkResponseDetected(resp)
        c1 == AppendIf(<<>>, Flag(pd, "injection"), "prompt_injection")
        c2 == AppendIf(c1, Flag(pd, "dlp"), "dlp_prompt")
        c3 == AppendIf(c2, Flag(pd, "url_cats"), "url_filtering_prompt")
        c4 == AppendIf(c3, Flag(rd, "dlp"), "dlp_response")
        c5 == AppendIf(c4, Flag(rd, "url_cats"), "url_filtering_response")
    IN  IF c5 = <<>> THEN <<OrDefault(resp.category, "benign")>> ELSE c5

SdkCategories(resp) ==
    LET pd == SdkPromptDetected(resp)
        rd == SdkResponseDetected(resp)
        category == OrDefault(resp.category, "benign")
        c1 == AppendIf(<<>>, Flag(pd, "injection"), "prompt_injection")
        c2 == AppendIf(c1, Flag(pd, "dlp"), "dlp_prompt")
        c3 == AppendIf(c2, Flag(pd, "url_cats"), "url_filtering_prompt")
        c4 == AppendIf(c3, Flag(rd, "dlp"), "dlp_response")
        c5 == AppendIf(c4, Flag(rd, "url_cats"), "url_filtering_response")
    IN  IF c5 = <<>>
        THEN (IF category = "benign" THEN <<"safe">> ELSE <<category>>)
        ELSE c5

\* Lines 370-378.
SdkSeverity(resp) ==
    LET category == OrDefault(resp.category, "benign")
        action_str == OrDefault(resp.action, "allow")
    IN  IF category = "malicious" \/ action_str = "block" THEN "CRITICAL"
        ELSE IF category = "suspicious" THEN "HIGH"
        ELSE IF AnyFlag(SdkPromptDetected(resp)) \/ AnyFlag(SdkResponseDetected(resp))
             THEN "MEDIUM"
        ELSE "SAFE"

\* Lines 380-386.
SdkAction(resp) ==
    LET action_str == OrDefault(resp.action, "allow")
    IN  IF action_str = "block" THEN "BLOCK"
        ELSE IF action_str = "alert" THEN "WARN"
        ELSE "ALLOW"

\* _parse_response of the sdk variant.
SdkParseResponse(resp) ==
    ScanResult(SdkAction(resp), SdkSeverity(resp), SdkCategories(resp), None, "remote")

\* The responses sync_scan can return: the fields _parse_response reads.
SdkFlagDicts(keys) == {NoObject} \cup [keys -> BOOLEAN]

SdkResponses ==
    [error : {None},
     category : {None, "benign", "suspicious", "malicious"},
     action : {None, "allow", "alert", "block"},
     prompt_detected : SdkFlagDicts({"injection", "dlp", "url_cats"}),
     response_detected : SdkFlagDicts({"dlp", "url_cats"})]

(*------------------------- http variant ---------------------------------*)
\* The running max_severity of lines 360-393, after each of the six flag tests.
HttpSeverityTrace(result) ==
    LET pd == result.prompt_detected
        rd == result.response_detected
        s0 == "SAFE"
        s1 == IF Flag(pd, "injection_detected") THEN "CRITICAL" ELSE s0
        s2 == IF Flag(pd, "jailbreak_detected") THEN "CRITICAL" ELSE s1
        s3 == IF Flag(pd, "pii_detected") /\ SeverityValue[s2] < SeverityValue["MEDIUM"]
              THEN "MEDIUM" ELSE s2
        s4 == IF Flag(rd, "dlp_detected") THEN "CRITICAL" ELSE s3
        s5 == IF Flag(rd, "malicious_detected") THEN "HIGH" ELSE s4
        s6 == IF Flag(rd, "pii_detected") /\ SeverityValue[s5] < SeverityValue["MEDIUM"]
              THEN "MEDIUM" ELSE s5
    IN  <<s0, s1, s2, s3, s4, s5, s6>>

HttpSeverity(result) == HttpSeverityTrace(result)[7]

\* The categories appended by lines 369-391 (before the "safe" default).
HttpFlagCategories(result) ==
    LET pd == result.prompt_detected
        rd == result.response_detected
        c1 == AppendIf(<<>>, Flag(pd, "injection_detected"), "prompt_injection")
        c2 == AppendIf(c1, Flag(pd, "jailbreak_detected"), "jailbreak_attempt")
        c3 == AppendIf(c2, Flag(pd, "pii_detected"), "pii_detected")
        c4 == AppendIf(c3, Flag(rd, "dlp_detected"), "data_leakage")
        c5 == AppendIf(c4, Flag(rd, "malicious_detected"), "malicious_content")
    IN  AppendIf(c5, Flag(rd, "pii_detected"), "pii_detected")

\* config["actions"] of the sdk variant's _default_config.
SdkDefaultActions ==
    [injection |-> "block", dlp |-> "block", url_cats |-> "block",
     malicious |-> "block", benign |-> "allow"]

\* config["actions"] of the http variant's _default_config.
HttpDefaultActions ==
    [prompt_injection |-> "block", data_leakage |-> "block",
     malicious_content |-> "block", pii_detected |-> "warn",
     url_filtering |-> "warn", safe |-> "allow"]

\* Lines 396-403: the loop over the categories, from the running action.
RECURSIVE HttpActionLoop(_, _, _)
HttpActionLoop(action_config, categories, action) ==
    IF categories = <<>> THEN action
    ELSE LET cat == Head(categories)
             cat_action == IF cat \in DOMAIN action_config THEN action_config[cat] ELSE "warn"
             next == IF cat_action = "block" /\ action # "BLOCK" THEN "BLOCK"
                     ELSE IF cat_action = "warn" /\ action = "ALLOW" THEN "WARN"
                     ELSE action
         IN  HttpActionLoop(action_config, Tail(categories), next)

\* _parse_response of the http variant, for a result that is a JSON object.
HttpParseResponseNoDefault(action_config, result) ==
    IF result.error # None
    THEN ScanResult("WARN", "LOW", <<"api_error">>, result.error, result.origin)
    ELSE ScanResult(HttpActionLoop(action_config, HttpFlagCategories(result), "ALLOW"),
                    HttpSeverity(result), HttpFlagCategories(result), None, "remote")

HttpParseResponse(action_config, result) ==
    IF result.error # None
    THEN ScanResult("WARN", "LOW", <<"api_error">>, result.error, result.origin)
    ELSE LET flagged == HttpFlagCategories(result)
         IN  ScanResult(HttpActionLoop(action_config, flagged, "ALLOW"),
                        HttpSeverity(result),
                        IF flagged = <<>> THEN <<"safe">> ELSE flagged,
                        None, "remote")

\* A JSON object as _parse_response reads it: its "error" entry (None when it
\* has none) and its detection flags; origin says who made the object.
HttpObject(error, pd, rd, origin) ==
    [kind |-> "object", error |-> error, prompt_detected |-> pd,
     response_detected |-> rd, origin |-> origin]

HttpPromptFlags == [{"injection_detected", "jailbreak_detected", "pii_detected"} -> BOOLEAN]
HttpResponseFlags == [{"dlp_detected", "malicious_detected", "pii_detected"} -> BOOLEAN]

\* The JSON objects without an "error" entry that the service can answer with.
HttpResponses ==
    {HttpObject(None, pd, rd, "remote") : pd \in HttpPromptFlags, rd \in HttpResponseFlags}

(***************************************************************************)
(* scan(): one call at a time on one engine, followed through its stages.  *)
(*   RATE_CHECK  _check_rate_limit                                         *)
(*   BUILD       sdk: Content(...) and Metadata(...)                       *)
(*               http: the API key test and _build_payload                 *)
(*   TRANSPORT   sdk: Scanner.sync_scan; http: _make_request               *)
(*   CLASSIFY    _parse_response                                           *)
(*   AUDIT       _log_scan                                                 *)
(*   DONE        scan has returned a ScanResult                            *)
(*   RAISED      scan was left by an exception                             *)
(***************************************************************************)
MaxScanTime == 2      \* the clock of the engine that scans runs over 0..MaxScanTime
MaxScanAttempts == 2  \* retry.max_attempts of the engine that scans: 0..MaxScanAttempts
MaxAttempts == 4      \* retry.max_attempts for direct _make_request calls: 0..MaxAttempts
MaxBackoff == 2       \* retry.backoff_seconds ranges over 1..MaxBackoff

RetryConfigs(most) == [max_attempts : 0..most, backoff_seconds : 1..MaxBackoff]

\* The rate limit configurations of the engine that scans: limiter off, a limit
\* of no request at all (as tests/test_scan.py test_scan_returns_rate_limit_result
\* sets it), a limit of one request per tick.
ScanRateConfigs ==
    { [enabled |-> FALSE, max_requests |-> 1, window_seconds |-> 1],
      [enabled |-> TRUE, max_requests |-> 0, window_seconds |-> 1],
      [enabled |-> TRUE, max_requests |-> 1, window_seconds |-> 1] }

\* The metadata fields, and config["metadata"] of the sdk variant's
\* _default_config.
MetadataFields == {"app_name", "app_user", "ai_model"}
NoMetadata == [f \in MetadataFields |-> None]
SdkDefaultMetadata == [app_name |-> "openclaw", app_user |-> None, ai_model |-> None]

\* The configurations of the engine that scans.  actions is the variant's
\* default table (the sdk variant's _parse_response never reads it).
ScanConfigs(v) ==
    [rate_limit : ScanRateConfigs,
     retry : IF v = "http"
             THEN {rc \in RetryConfigs(MaxScanAttempts) : rc.backoff_seconds = 1}
             ELSE {[max_attempts |-> 0, backoff_seconds |-> 1]},
     api_key : {"", "key"},
     actions : {IF v = "sdk" THEN SdkDefaultActions ELSE HttpDefaultActions},
     logging : [enabled : BOOLEAN],
     metadata : {SdkDefaultMetadata}]

\* The arguments of scan that the stages read.
ContextUsers == {None, "u1"}
ScanContents ==
    { [prompt |-> None, response |-> None],
      [prompt |-> "", response |-> ""],
      [prompt |-> "text", response |-> None],
      [prompt |-> None, response |-> "text"] }

\* What requests.post / raise_for_status / resp.json() can do in one attempt:
\* a RequestException (connection error or timeout, HTTP 401, HTTP 5xx), a 2xx
\* answer whose body is not JSON, or a 2xx answer with a JSON body.
FailureKinds == {"network_error", "http_401", "http_500"}

\* JSON bodies of a 2xx answer: objects (one carrying an "error" entry), and
\* bodies that are not objects.
NoFlags(keys) == [k \in keys |-> FALSE]
HttpBenign ==
    HttpObject(None, NoFlags({"injection_detected", "jailbreak_detected", "pii_detected"}),
               NoFlags({"dlp_detected", "malicious_detected", "pii_detected"}), "remote")
HttpBodies ==
    { HttpBenign,
      [HttpBenign EXCEPT !.prompt_detected["injection_detected"] = TRUE],
      [HttpBenign EXCEPT !.error = "remote error"],
      [kind |-> "array"],
      [kind |-> "null"] }

\* Responses of sync_scan used when scanning.
SdkBenign == [error |-> None, category |-> "benign", action |-> "allow",
              prompt_detected |-> NoObject, response_detected |-> NoObject,
              tr_id |-> None]
SdkBodies ==
    { SdkBenign,
      [SdkBenign EXCEPT !.prompt_detected =
          [k \in {"injection", "dlp", "url_cats"} |-> k = "injection"]],
      [SdkBenign EXCEPT !.category = "malicious", !.action = "block"],
      [SdkBenign EXCEPT !.category = "suspicious", !.action = "alert"],
      [SdkBenign EXCEPT !.tr_id = "tx-returned"],
      [SdkBenign EXCEPT !.tr_id = ""] }

\* The keyword arguments of scan that only the sdk variant has, and what the
\* context dict holds under the names of the metadata fields.
NoArgs == [session_id |-> None, tr_id |-> None, app_name |-> None, app_user |-> None,
           ai_model |-> None, context |-> NoMetadata]
ScanArgs(v) ==
    IF v = "sdk"
    THEN {[NoArgs EXCEPT !.session_id = session_id, !.tr_id = tr_id] :
              session_id \in {None, "session-123"}, tr_id \in {None, "tx-001"}}
    ELSE {NoArgs}

\* sdk, lines 269-281: the Metadata object scan builds (NoObject when it
\* builds none).
SdkMetadataConfigFirst(metadata_config, args) ==
    LET effective == [f \in MetadataFields |-> OrDefault(metadata_config[f], args[f])]
    IN  IF \A f \in MetadataFields : effective[f] \in {None, ""}
        THEN NoObject
        ELSE effective

SdkMetadata(metadata_config, args) ==
    LET effective == [f \in MetadataFields |-> OrDefault(args[f], metadata_config[f])]
    IN  IF \A f \in MetadataFields : effective[f] \in {None, ""}
        THEN NoObject
        ELSE effective

\* sdk, lines 283-290: the keyword arguments scan gives sync_scan.
SdkSyncScanArgs(metadata_config, args) ==
    [session_id |-> args.session_id, tr_id |-> args.tr_id,
     metadata |-> SdkMetadata(metadata_config, args)]

\* sdk, lines 388-391 and 404-405: the tr_id and session_id of the ScanResult
\* that _parse_response builds.
SdkCorrelationCallerFirst(resp, session_id, tr_id) ==
    [tr_id |-> IF tr_id # None THEN tr_id ELSE resp.tr_id, session_id |-> session_id]

SdkCorrelation(resp, session_id, tr_id) ==
    [tr_id |-> IF resp.tr_id \notin {None, ""} THEN resp.tr_id ELSE tr_id,
     session_id |-> session_id]

\* Lines 252-260 (sdk), 231-240 (http).
RateLimitedResultWarn ==
    ScanResult("WARN", "HIGH", <<"rate_limit_exceeded">>, "Rate limit exceeded", "rate_limit")

RateLimitedResult ==
    ScanResult("BLOCK", "HIGH", <<"rate_limit_exceeded">>, "Rate limit exceeded", "rate_limit")

\* Lines 245-254 (http).
ConfigErrorResult ==
    ScanResult("WARN", "LOW", <<"configuration_error">>, "No API key configured", "config")

\* Lines 304-316 (sdk): the except branch of scan.
ExceptionResultAllow(text) == ScanResult("ALLOW", "LOW", <<"api_error">>, text, "exception")

ExceptionResult(text) == ScanResult("WARN", "LOW", <<"api_error">>, text, "exception")

\* Line 331 (http): the attempt just failed is the last one.
IsLastAttemptEarly(attempt, max_attempts) == ~(attempt < max_attempts - 2)

IsLastAttempt(attempt, max_attempts) == ~(attempt < max_attempts - 1)

\* Line 332 (http): the argument of time.sleep after the failed attempt.
RECURSIVE Pow2(_)
Pow2(n) == IF n = 0 THEN 1 ELSE 2 * Pow2(n - 1)

BackoffDelayExponential(backoff, attempt) == backoff * Pow2(attempt)

BackoffDelay(backoff, attempt) == backoff * (attempt + 1)

\* _setup_logging (sdk lines 179-196, http lines 164-182): the handlers of the
\* logger "prisma_airs" after an engine is constructed in a process where the
\* logger has the handlers given.  logging.getLogger returns the same logger
\* to every engine of the process.  The sdk variant adds its file handler
\* only to a logger without handlers; the http variant adds one every time.
setup_logging(v, log_config, logger_handlers) ==
    IF ~log_config.enabled
    THEN Append(logger_handlers, "null")
    ELSE IF v = "sdk" /\ logger_handlers # <<>>
         THEN logger_handlers
         ELSE Append(logger_handlers, "file")

\* logger.info(line): every file handler of the logger writes the line.
RECURSIVE Emit(_, _, _)
Emit(log, logger_handlers, line) ==
    IF logger_handlers = <<>>
    THEN log
    ELSE Emit(IF Head(logger_handlers) = "file" THEN Append(log, line) ELSE log,
              Tail(logger_handlers), line)

Init ==
    /\ variant \in {"sdk", "http"}
    /\ config \in ScanConfigs(variant)
    /\ clock = 0
    /\ rate_limits = EmptyDict
    /\ checks = <<>>
    /\ threads = EmptyDict
    /\ call = NoCall
    /\ path = <<>>
    /\ sleeps = <<>>
    /\ posts = <<>>
    /\ results = <<>>
    /\ audit_log = <<>>
    /\ parse_in = NoParse
    /\ parse_out = NoParse
    /\ merge_in = NoMerge
    /\ merge_out = NoMerge
    /\ handlers = setup_logging(variant, config.logging, <<>>)
    /\ scans = 0
    /\ audit = NoAudit
    /\ generated = <<>>

ScanFrame == UNCHANGED <<variant, config, threads, parse_in, parse_out,
                         merge_in, merge_out, handlers, audit, generated>>

\* The call, with locals c, moves on to the next stage.
EnterFrom(c, stage, raw, result) ==
    /\ call' = [c EXCEPT !.stage = stage, !.raw = raw, !.result = result]
    /\ path' = Append(path, stage)
    /\ UNCHANGED results

Enter(stage, raw, result) == EnterFrom(call, stage, raw, result)

\* The call, with locals c, returns result to the caller.
ReturnFrom(c, result) ==
    /\ call' = [c EXCEPT !.stage = "DONE", !.result = result]
    /\ path' = Append(path, "DONE")
    /\ results' = Append(results, result)

Return(result) == ReturnFrom(call, result)

\* The call is left by an exception that nothing in scan catches.
Raise ==
    /\ call' = [call EXCEPT !.stage = "RAISED"]
    /\ UNCHANGED <<path, results>>

\* scan(prompt, response, context, ...): lines 246-248.  The histories restart.
ScanCall(context_user, prompt, response, args) ==
    /\ call.stage \in {"IDLE", "DONE", "RAISED"}
    /\ call' = [stage |-> "RATE_CHECK", context_user |-> context_user,
                user_id |-> IF context_user = None THEN "unknown" ELSE context_user,
                prompt |-> prompt, response |-> response,
                args |-> args, sent |-> NoObject,
                attempt |-> 0, raw |-> NoObject, result |-> NoObject]
    /\ path' = <<"RATE_CHECK">>
    /\ checks' = <<>>
    /\ sleeps' = <<>>
    /\ posts' = <<>>
    /\ results' = <<>>
    /\ audit_log' = <<>>
    /\ scans' = 1
    /\ UNCHANGED <<clock, rate_limits>>
    /\ ScanFrame

\* Lines 250-260: the rate limit check and the early return.
RateCheck(now) ==
    /\ call.stage = "RATE_CHECK"
    /\ LET r == check_rate_limit(config.rate_limit, rate_limits, call.user_id, now)
       IN  /\ rate_limits' = r.rate_limits
           /\ checks' = Append(checks, [user_id |-> call.user_id, now |-> now,
                                        rejected |-> r.rejected])
           /\ IF r.rejected
              THEN Return(RateLimitedResult)
              ELSE Enter("BUILD", NoObject, NoObject)
    /\ clock' = now
    /\ UNCHANGED <<sleeps, posts, audit_log, scans>>
    /\ ScanFrame

EmptyContent == call.prompt \in {None, ""} /\ call.response \in {None, ""}

\* sdk, lines 262-281: Content(prompt or "", response or "") and the metadata.
\* Content is the SDK's class: whether it refuses empty content is the SDK's
\* choice; an exception it raises is caught by scan's except branch.
SdkBuild ==
    /\ variant = "sdk"
    /\ call.stage = "BUILD"
    /\ \E content_raises \in (IF EmptyContent THEN BOOLEAN ELSE {FALSE}) :
          IF content_raises
          THEN Return(ExceptionResult("content"))
          ELSE Enter("TRANSPORT", NoObject, NoObject)
    /\ UNCHANGED <<clock, rate_limits, checks, sleeps, posts, audit_log, scans>>
    /\ ScanFrame

\* http, lines 242-257: the API key test, then _build_payload.
HttpBuild ==
    /\ variant = "http"
    /\ call.stage = "BUILD"
    /\ IF config.api_key = ""
       THEN Return(ConfigErrorResult)
       ELSE Enter("TRANSPORT", NoObject, NoObject)
    /\ UNCHANGED <<clock, rate_limits, checks, sleeps, posts, audit_log, scans>>
    /\ ScanFrame

\* sdk, lines 283-290 and 304-316: sync_scan answers or raises.  scan calls it
\* whether or not an API key was resolved; without a key it cannot answer.
SdkTransport ==
    /\ variant = "sdk"
    /\ call.stage = "TRANSPORT"
    /\ LET called == [call EXCEPT !.sent = SdkSyncScanArgs(config.metadata, call.args)]
       IN  \/ /\ posts' = Append(posts, "raise")
              /\ ReturnFrom(called, ExceptionResult("sync_scan"))
           \/ \E resp \in (IF config.api_key = "" THEN {} ELSE SdkBodies) :
              /\ posts' = Append(posts, "ok")
              /\ EnterFrom(called, "CLASSIFY", resp, NoObject)
    /\ UNCHANGED <<clock, rate_limits, checks, sleeps, audit_log, scans>>
    /\ ScanFrame

\* http, lines 329-334: the except branch of one attempt of _make_request.
AttemptFailed(text) ==
    IF IsLastAttempt(call.attempt, config.retry.max_attempts)
    THEN /\ Enter("CLASSIFY", HttpObject(text, EmptyDict, EmptyDict, "transport"), NoObject)
         /\ UNCHANGED sleeps
    ELSE /\ sleeps' = Append(sleeps,
                [after |-> Len(posts'),
                 seconds |-> BackoffDelay(config.retry.backoff_seconds, call.attempt)])
         /\ call' = [call EXCEPT !.attempt = @ + 1]
         /\ UNCHANGED <<path, results>>

\* http, lines 319-334: one iteration of the retry loop of _make_request.
HttpAttemptGoesOn ==
    /\ variant = "http"
    /\ call.stage = "TRANSPORT"
    /\ call.attempt < config.retry.max_attempts
    /\ \/ \E kind \in FailureKinds :
          /\ posts' = Append(posts, kind)
          /\ AttemptFailed(kind)
       \/ \E body \in HttpBodies :
          /\ posts' = Append(posts, "ok")
          /\ IF IsLastAttempt(call.attempt, config.retry.max_attempts)
             THEN Enter("CLASSIFY", body, NoObject)
             ELSE /\ call' = [call EXCEPT !.attempt = @ + 1]
                  /\ UNCHANGED <<path, results>>
          /\ UNCHANGED sleeps
       \/ /\ posts' = Append(posts, "invalid_json")
          /\ \E is_request_exception \in BOOLEAN :
                IF is_request_exception
                THEN AttemptFailed("invalid_json")
                ELSE Raise /\ UNCHANGED sleeps
    /\ UNCHANGED <<clock, rate_limits, checks, audit_log, scans>>
    /\ ScanFrame

HttpAttempt ==
    /\ variant = "http"
    /\ call.stage = "TRANSPORT"
    /\ call.attempt < config.retry.max_attempts
    /\ \/ \E kind \in FailureKinds :
          /\ posts' = Append(posts, kind)
          /\ AttemptFailed(kind)
       \/ \E body \in HttpBodies :
          /\ posts' = Append(posts, "ok")
          /\ Enter("CLASSIFY", body, NoObject)
          /\ UNCHANGED sleeps
       \* resp.json() fails: a RequestException in requests >= 2.27, a plain
       \* ValueError before, which the except clause does not catch.
       \/ /\ posts' = Append(posts, "invalid_json")
          /\ \E is_request_exception \in BOOLEAN :
                IF is_request_exception
                THEN AttemptFailed("invalid_json")
                ELSE Raise /\ UNCHANGED sleeps
    /\ UNCHANGED <<clock, rate_limits, checks, audit_log, scans>>
    /\ ScanFrame

\* http, line 336: the loop ends without having run (max_attempts <= 0).
HttpNoAttempt ==
    /\ variant = "http"
    /\ call.stage = "TRANSPORT"
    /\ ~(call.attempt < config.retry.max_attempts)
    /\ Enter("CLASSIFY",
             HttpObject("Max retries exceeded", EmptyDict, EmptyDict, "transport"), NoObject)
    /\ UNCHANGED <<clock, rate_limits, checks, sleeps, posts, audit_log, scans>>
    /\ ScanFrame

\* sdk, lines 292-297: _parse_response.
SdkClassify ==
    /\ variant = "sdk"
    /\ call.stage = "CLASSIFY"
    /\ Enter("AUDIT", call.raw,
             SdkParseResponse(call.raw) @@
             SdkCorrelation(call.raw, call.args.session_id, call.args.tr_id))
    /\ UNCHANGED <<clock, rate_limits, checks, sleeps, posts, audit_log, scans>>
    /\ ScanFrame

\* http, lines 261-264: _parse_response.  On a body that is not a JSON object
\* ("error" in None, result.get on a list) it raises, and scan has no except.
HttpClassify ==
    /\ variant = "http"
    /\ call.stage = "CLASSIFY"
    /\ IF call.raw.kind = "object"
       THEN Enter("AUDIT", call.raw, HttpParseResponse(config.actions, call.raw))
       ELSE Raise
    /\ UNCHANGED <<clock, rate_limits, checks, sleeps, posts, audit_log, scans>>
    /\ ScanFrame

\* _log_scan, then return the result (sdk lines 299-302, http lines 266-269).
Audit ==
    /\ call.stage = "AUDIT"
    /\ audit_log' = IF config.logging.enabled
                    THEN Emit(audit_log, handlers,
                              [user_id |-> call.user_id, action |-> call.result.action,
                               severity |-> call.result.severity,
                               categories |-> call.result.categories])
                    ELSE audit_log
    /\ Return(call.result)
    /\ UNCHANGED <<clock, rate_limits, checks, sleeps, posts, scans>>
    /\ ScanFrame

Next ==
    \/ \E context_user \in ContextUsers : \E content \in ScanContents :
          \E args \in ScanArgs(variant) :
              ScanCall(context_user, content.prompt, content.response, args)
    \/ \E now \in clock..MaxScanTime : RateCheck(now)
    \/ SdkBuild
    \/ HttpBuild
    \/ SdkTransport
    \/ HttpAttempt
    \/ HttpNoAttempt
    \/ SdkClassify
    \/ HttpClassify
    \/ Audit

Spec == Init /\ [][Next]_vars

(***************************************************************************)
(* SpecTransport: _make_request called on its own (http variant), with     *)
(* every retry configuration; it has returned when the stage is CLASSIFY.  *)
(***************************************************************************)
InitTransport ==
    /\ variant = "http"
    /\ config \in [rate_limit : {[enabled |-> FALSE, max_requests |-> 1, window_seconds |-> 1]},
                   retry : RetryConfigs(MaxAttempts),
                   api_key : {"key"},
                   actions : {HttpDefaultActions},
                   logging : [enabled : {TRUE}]]
    /\ clock = 0
    /\ rate_limits = EmptyDict
    /\ checks = <<>>
    /\ threads = EmptyDict
    /\ call = [stage |-> "TRANSPORT", user_id |-> "unknown", prompt |-> "text",
               response |-> None, attempt |-> 0, raw |-> NoObject, result |-> NoObject]
    /\ path = <<"TRANSPORT">>
    /\ sleeps = <<>>
    /\ posts = <<>>
    /\ results = <<>>
    /\ audit_log = <<>>
    /\ parse_in = NoParse
    /\ parse_out = NoParse
    /\ merge_in = NoMerge
    /\ merge_out = NoMerge
    /\ handlers = setup_logging(variant, config.logging, <<>>)
    /\ scans = 0
    /\ audit = NoAudit
    /\ generated = <<>>

NextTransport ==
    \/ HttpAttempt
    \/ HttpNoAttempt

SpecTransport == InitTransport /\ [][NextTransport]_vars

\* _make_request runs on the caller's thread: while the loop has an iteration
\* to run, or the return after it, the thread runs it (requests.post is given
\* a timeout and time.sleep returns).
SpecTransportFair == SpecTransport /\ WF_vars(NextTransport)

(***************************************************************************)
(* SpecClassify: _parse_response called on its own on every response.      *)
(***************************************************************************)
InitClassify ==
    /\ variant \in {"sdk", "http"}
    /\ config = [actions |-> IF variant = "sdk" THEN SdkDefaultActions
                              ELSE HttpDefaultActions]
    /\ clock = 0
    /\ rate_limits = EmptyDict
    /\ checks = <<>>
    /\ threads = EmptyDict
    /\ call = NoCall
    /\ path = <<>>
    /\ sleeps = <<>>
    /\ posts = <<>>
    /\ results = <<>>
    /\ audit_log = <<>>
    /\ parse_in \in IF variant = "sdk"
                    THEN SdkResponses
                    ELSE HttpResponses \cup
                         {HttpObject("Max retries exceeded", EmptyDict, EmptyDict, "transport")}
    /\ parse_out = NoParse
    /\ merge_in = NoMerge
    /\ merge_out = NoMerge
    /\ handlers = <<>>
    /\ scans = 0
    /\ audit = NoAudit
    /\ generated = <<>>

ClassifyFrame == UNCHANGED <<variant, config, clock, rate_limits, checks, threads, call,
                             path, sleeps, posts, results, audit_log, parse_in,
                             merge_in, merge_out, handlers, scans, audit, generated>>

SdkParse ==
    /\ variant = "sdk"
    /\ parse_out = NoParse
    /\ parse_out' = SdkParseResponse(parse_in)
    /\ ClassifyFrame

HttpParse ==
    /\ variant = "http"
    /\ parse_out = NoParse
    /\ parse_out' = HttpParseResponse(config.actions, parse_in)
    /\ ClassifyFrame

NextClassify ==
    \/ SdkParse
    \/ HttpParse

SpecClassify == InitClassify /\ [][NextClassify]_vars

(***************************************************************************)
(* The claims about scan, _make_request and _parse_response.               *)
(***************************************************************************)
InPath(stage) == \E i \in 1..Len(path) : path[i] = stage

\* The attempts that ended in the except branch of _make_request.
FailedOutcomes == FailureKinds \cup {"invalid_json"}

AllAttemptsFailed == \A i \in 1..Len(posts) : posts[i] \in FailedOutcomes

\* C3: a scan call that the rate limiter rejects returns at once with action
\* BLOCK, severity HIGH, categories ["rate_limit_exceeded"] and an error text,
\* and has made no transport call.
C3_RateLimitedBlocksLocally ==
    (Len(checks) = 1 /\ checks[1].rejected) =>
        /\ call.stage = "DONE"
        /\ path = <<"RATE_CHECK", "DONE">>
        /\ Len(results) = 1
        /\ results[1].action = "BLOCK"
        /\ results[1].severity = "HIGH"
        /\ results[1].categories = <<"rate_limit_exceeded">>
        /\ results[1].error = "Rate limit exceeded"
        /\ posts = <<>>

C3_Witness ==
    /\ Len(checks) = 1
    /\ checks[1].rejected
    /\ call.stage = "DONE"
    /\ call.prompt = "text"
    /\ config.api_key = "key"

\* C4: a scan call whose prompt and response are both absent or empty makes
\* no transport call.
C4_EmptyContentNeverSent ==
    (call.stage # "IDLE" /\ EmptyContent) => posts = <<>>

\* C4 for the http variant, where the validation is the repository's own code
\* (in the sdk variant it is left to the SDK's Content class).
C4_EmptyContentNeverSentHttp ==
    variant = "http" => C4_EmptyContentNeverSent

\* C5: no exception leaves scan: whatever the transport does, the call ends
\* by returning one ScanResult.
C5_NoExceptionEscapes ==
    /\ call.stage # "RAISED"
    /\ call.stage = "DONE" => Len(results) = 1

\* C6: when every attempt of _make_request has failed, exactly max_attempts
\* attempts were made, and the scan returns WARN with categories ["api_error"]
\* and an error text.
C6_ExactlyMaxAttemptsThenWarn ==
    (/\ variant = "http"
     /\ InPath("TRANSPORT")
     /\ call.stage \in {"CLASSIFY", "AUDIT", "DONE"}
     /\ AllAttemptsFailed) =>
        /\ Len(posts) = config.retry.max_attempts
        /\ call.stage = "DONE" =>
              /\ Len(results) = 1
              /\ results[1].action = "WARN"
              /\ results[1].categories = <<"api_error">>
              /\ results[1].error # None

C6_Witness ==
    /\ variant = "http"
    /\ call.stage = "DONE"
    /\ config.retry.max_attempts >= 2
    /\ Len(posts) = config.retry.max_attempts
    /\ AllAttemptsFailed
    /\ results[1].categories = <<"api_error">>

\* C7: an attempt of _make_request that fails with HTTP 401 is the last one.
C7_NoRetryAfter401 ==
    \A i \in 1..Len(posts) : posts[i] = "http_401" => i = Len(posts)

\* C8: the k-th wait of _make_request follows failed attempt k, lasts
\* backoff_seconds * k, and comes before attempt k + 1 (k <= max_attempts - 1):
\* every failed attempt but the last possible one is followed by its wait, and
\* nothing else is.
C8_LinearBackoff ==
    /\ \A k \in 1..Len(sleeps) :
          /\ sleeps[k].after = k
          /\ sleeps[k].seconds = config.retry.backoff_seconds * k
          /\ k <= config.retry.max_attempts - 1
          /\ posts[k] \in FailedOutcomes
    /\ call.stage = "TRANSPORT" => Len(sleeps) = Len(posts)
    /\ call.stage = "CLASSIFY" =>
          Len(sleeps) = (IF posts = <<>> THEN 0 ELSE Len(posts) - 1)

C8_Witness ==
    /\ call.stage = "CLASSIFY"
    /\ config.retry.max_attempts = 4
    /\ config.retry.backoff_seconds = 2
    /\ Len(posts) = 4
    /\ AllAttemptsFailed
    /\ sleeps = <<[after |-> 1, seconds |-> 2], [after |-> 2, seconds |-> 4],
                  [after |-> 3, seconds |-> 6]>>

StageEdges ==
    { <<"RATE_CHECK", "BUILD">>, <<"BUILD", "TRANSPORT">>, <<"TRANSPORT", "CLASSIFY">>,
      <<"CLASSIFY", "AUDIT">>, <<"AUDIT", "DONE">>,
      <<"RATE_CHECK", "DONE">>, <<"BUILD", "DONE">>, <<"TRANSPORT", "DONE">> }

\* The stages of the call follow the edges, and none is entered twice.
C9_PathFollowsEdges ==
    /\ path # <<>> => path[1] = "RATE_CHECK"
    /\ \A i \in 1..(Len(path) - 1) : <<path[i], path[i + 1]>> \in StageEdges
    /\ \A i, j \in 1..Len(path) : i # j => path[i] # path[j]
    /\ Len(results) = (IF call.stage = "DONE" THEN 1 ELSE 0)

\* C9: every scan call goes RATE_CHECK, BUILD, TRANSPORT, CLASSIFY, AUDIT, DONE
\* in that order, leaving early only from RATE_CHECK, BUILD or TRANSPORT to
\* DONE, enters no stage twice and ends with exactly one ScanResult.
C9_StagesInOrderOneResult ==
    /\ C9_PathFollowsEdges
    /\ call.stage # "RAISED"

\* The prompt-injection flag of the response given to _parse_response.
InjectionFlagged ==
    IF variant = "sdk"
    THEN parse_in.prompt_detected # NoObject /\ parse_in.prompt_detected["injection"]
    ELSE Flag(parse_in.prompt_detected, "injection_detected")

\* C10: for a response whose prompt-injection flag is set, _parse_response
\* returns categories containing "prompt_injection" and severity CRITICAL.
C10_InjectionIsCritical ==
    (parse_out # NoParse /\ parse_in.error = None /\ InjectionFlagged) =>
        /\ "prompt_injection" \in Elements(parse_out.categories)
        /\ parse_out.severity = "CRITICAL"

\* C10 for the sdk variant and for the http variant.
C10_InjectionIsCriticalSdk == variant = "sdk" => C10_InjectionIsCritical
C10_InjectionIsCriticalHttp == variant = "http" => C10_InjectionIsCritical


\* The greatest of a non-empty set of severity names.
MaxSeverity(S) == CHOOSE s \in S : \A t \in S : SeverityValue[t] <= SeverityValue[s]

\* The severities of the signals that fired in the response given to
\* _parse_response, over the floor SAFE.  sdk: top-level category "malicious"
\* or action "block" is CRITICAL, category "suspicious" is HIGH, any detection
\* flag is MEDIUM.  http: injection, jailbreak and data leakage are CRITICAL,
\* malicious content is HIGH, PII on either side is MEDIUM.
FiredSeverities ==
    IF variant = "sdk"
    THEN {"SAFE"}
         \cup (IF parse_in.category = "malicious" \/ parse_in.action = "block"
               THEN {"CRITICAL"} ELSE {})
         \cup (IF parse_in.category = "suspicious" THEN {"HIGH"} ELSE {})
         \cup (IF \/ (parse_in.prompt_detected # NoObject /\ AnyFlag(parse_in.prompt_detected))
                  \/ (parse_in.response_detected # NoObject /\ AnyFlag(parse_in.response_detected))
               THEN {"MEDIUM"} ELSE {})
    ELSE {"SAFE"}
         \cup (IF \/ Flag(parse_in.prompt_detected, "injection_detected")
                  \/ Flag(parse_in.prompt_detected, "jailbreak_detected")
                  \/ Flag(parse_in.response_detected, "dlp_detected")
               THEN {"CRITICAL"} ELSE {})
         \cup (IF Flag(parse_in.response_detected, "malicious_detected")
               THEN {"HIGH"} ELSE {})
         \cup (IF \/ Flag(parse_in.prompt_detected, "pii_detected")
                  \/ Flag(parse_in.response_detected, "pii_detected")
               THEN {"MEDIUM"} ELSE {})

\* C11: the severity _parse_response returns is the greatest of the severities
\* of the signals that fired, and the running severity of the pass (the http
\* variant's max_severity) is never lowered by a later signal.
C11_SeverityIsMaxNeverDecreases ==
    (parse_out # NoParse /\ parse_in.error = None) =>
        /\ parse_out.severity = MaxSeverity(FiredSeverities)
        /\ variant = "http" =>
              \A i \in 1..6 :
                  SeverityValue[HttpSeverityTrace(parse_in)[i]] <=
                      SeverityValue[HttpSeverityTrace(parse_in)[i + 1]]

\* C11 for the sdk variant, whose severity is one if / elif chain.
C11_SeverityIsMaxSdk == variant = "sdk" => C11_SeverityIsMaxNeverDecreases

\* The list that appends name when the flag is set and name is not yet in it.
AppendOnce(categories, flag, name) ==
    IF flag /\ name \notin Elements(categories) THEN Append(categories, name) ELSE categories

NoDuplicates(seq) == \A i, j \in 1..Len(seq) : i # j => seq[i] # seq[j]

\* The names of the flags set in the response given to _parse_response, walked
\* in the fixed order (prompt side first, injection first), each name once.
FiredCategories ==
    IF variant = "sdk"
    THEN LET pd == IF parse_in.prompt_detected = NoObject THEN EmptyDict
                   ELSE parse_in.prompt_detected
             rd == IF parse_in.response_detected = NoObject THEN EmptyDict
                   ELSE parse_in.response_detected
             c1 == AppendOnce(<<>>, Flag(pd, "injection"), "prompt_injection")
             c2 == AppendOnce(c1, Flag(pd, "dlp"), "dlp_prompt")
             c3 == AppendOnce(c2, Flag(pd, "url_cats"), "url_filtering_prompt")
             c4 == AppendOnce(c3, Flag(rd, "dlp"), "dlp_response")
         IN  AppendOnce(c4, Flag(rd, "url_cats"), "url_filtering_response")
    ELSE LET pd == parse_in.prompt_detected
             rd == parse_in.response_detected
             c1 == AppendOnce(<<>>, Flag(pd, "injection_detected"), "prompt_injection")
             c2 == AppendOnce(c1, Flag(pd, "jailbreak_detected"), "jailbreak_attempt")
             c3 == AppendOnce(c2, Flag(pd, "pii_detected"), "pii_detected")
             c4 == AppendOnce(c3, Flag(rd, "dlp_detected"), "data_leakage")
             c5 == AppendOnce(c4, Flag(rd, "malicious_detected"), "malicious_content")
         IN  AppendOnce(c5, Flag(rd, "pii_detected"), "pii_detected")

\* C12: the categories _parse_response returns list the flags that fired in the
\* fixed order, each category name once: the list holds no duplicate.
C12_FixedOrderNoDuplicates ==
    (parse_out # NoParse /\ parse_in.error = None) =>
        /\ NoDuplicates(parse_out.categories)
        /\ FiredCategories # <<>> => parse_out.categories = FiredCategories

\* C12 for the sdk variant, whose five category names are distinct.
C12_FixedOrderNoDuplicatesSdk == variant = "sdk" => C12_FixedOrderNoDuplicates

\* The call got a remote classification (not an error answer) that reports no
\* risk: no detection flag is set and (sdk) the top-level category is benign.
NoRiskDetected ==
    /\ call.stage = "DONE"
    /\ Len(results) = 1
    /\ results[1].source = "remote"
    /\ call.raw.error = None
    /\ IF variant = "sdk"
       THEN /\ call.raw.category \in {None, "", "benign"}
            /\ call.raw.prompt_detected = NoObject \/ ~AnyFlag(call.raw.prompt_detected)
            /\ call.raw.response_detected = NoObject \/ ~AnyFlag(call.raw.response_detected)
       ELSE /\ ~AnyFlag(call.raw.prompt_detected)
            /\ ~AnyFlag(call.raw.response_detected)

\* C13: every ScanResult scan returns, on every path, has a non-empty
\* categories list; it is exactly ["safe"] when the remote classification
\* reports no risk, and "safe" never stands next to another category.
C13_CategoriesNonEmptySafeAlone ==
    \A i \in 1..Len(results) :
        /\ results[i].categories # <<>>
        /\ NoRiskDetected => results[i].categories = <<"safe">>
        /\ "safe" \in Elements(results[i].categories) => results[i].categories = <<"safe">>

C13_Witness ==
    /\ NoRiskDetected
    /\ variant = "http"
    /\ posts = <<"network_error", "ok">>
    /\ results[1].categories = <<"safe">>

\* Action.<name> of a table entry, and the order ALLOW < WARN < BLOCK.
TableAction == [allow |-> "ALLOW", warn |-> "WARN", block |-> "BLOCK"]
ActionRank == [ALLOW |-> 0, WARN |-> 1, BLOCK |-> 2]

MostRestrictive(S) == CHOOSE a \in S : \A b \in S : ActionRank[b] <= ActionRank[a]

\* The top-level action string of the response given to _parse_response (the
\* http variant's code reads none).
TopLevelAction == IF variant = "sdk" THEN parse_in.action ELSE None

\* C14: when config["actions"] has an entry for each category of the verdict,
\* the action _parse_response returns is the most restrictive of those entries
\* (BLOCK over WARN over ALLOW), except that a top-level action "block" gives
\* BLOCK whatever the table says.
C14_ActionMostRestrictiveOfTable ==
    (/\ parse_out # NoParse
     /\ parse_in.error = None
     /\ \A c \in Elements(parse_out.categories) : c \in DOMAIN config.actions) =>
        parse_out.action =
            IF TopLevelAction = "block" THEN "BLOCK"
            ELSE MostRestrictive({TableAction[config.actions[c]] :
                                      c \in Elements(parse_out.categories)})

\* C14 for the http variant, whose _parse_response walks the table.
C14_ActionMostRestrictiveOfTableHttp == variant = "http" => C14_ActionMostRestrictiveOfTable

\* The response given to _parse_response has no detection flag set and (sdk)
\* the top-level category "benign".
BenignNoFlags ==
    /\ parse_in.error = None
    /\ IF variant = "sdk"
       THEN /\ parse_in.category = "benign"
            /\ parse_in.prompt_detected = NoObject \/ ~AnyFlag(parse_in.prompt_detected)
            /\ parse_in.response_detected = NoObject \/ ~AnyFlag(parse_in.response_detected)
       ELSE /\ ~AnyFlag(parse_in.prompt_detected)
            /\ ~AnyFlag(parse_in.response_detected)

IsSafeAllow(result) ==
    /\ result.categories = <<"safe">>
    /\ result.severity = "SAFE"
    /\ result.action = "ALLOW"

\* C15: for a response with no detection flag set and top-level category
\* "benign", _parse_response returns categories ["safe"], severity SAFE and
\* action ALLOW.
C15_BenignIsSafeAllow ==
    (parse_out # NoParse /\ BenignNoFlags) => IsSafeAllow(parse_out)

\* C15 as amended: ... and whose top-level action is "allow" or absent.
C15_BenignAllowedIsSafeAllow ==
    (parse_out # NoParse /\ BenignNoFlags /\ TopLevelAction \in {None, "", "allow"}) =>
        IsSafeAllow(parse_out)

C15_Witness ==
    /\ variant = "sdk"
    /\ BenignNoFlags
    /\ parse_in.action = "allow"
    /\ parse_in.prompt_detected # NoObject
    /\ parse_out # NoParse
    /\ IsSafeAllow(parse_out)

\* The result of the call is _parse_response's classification of a remote
\* answer that signals no error.
GenuineRemote ==
    /\ InPath("AUDIT")
    /\ call.raw # NoObject
    /\ call.raw.error = None

\* C16: in every ScanResult scan returns, an error text stands only in a
\* verdict made locally (rate limit, configuration error, transport failure),
\* whose action is WARN or BLOCK; the classification of a remote answer has
\* error null.
C16_ErrorOnlyOnLocalVerdicts ==
    \A i \in 1..Len(results) :
        /\ results[i].error # None =>
              /\ ~GenuineRemote
              /\ results[i].action \in {"WARN", "BLOCK"}
              /\ results[i].categories \in
                    {<<"rate_limit_exceeded">>, <<"configuration_error">>, <<"api_error">>}
        /\ GenuineRemote => results[i].error = None

C16_Witness ==
    /\ variant = "sdk"
    /\ call.stage = "DONE"
    /\ posts = <<"raise">>
    /\ results[1].error = "sync_scan"
    /\ results[1].action = "WARN"

\* C17: the verdict built from a remote response has the response's tr_id when
\* the response carries one and the caller's tr_id otherwise, and the caller's
\* session_id; sync_scan was given the caller's session_id and tr_id unchanged.
C17_RemoteTrIdOverridesCaller ==
    /\ (variant = "sdk" /\ posts # <<>>) =>
          /\ call.sent.session_id = call.args.session_id
          /\ call.sent.tr_id = call.args.tr_id
    /\ (variant = "sdk" /\ call.stage = "DONE" /\ InPath("AUDIT")) =>
          /\ results[1].tr_id = (IF call.raw.tr_id \in {None, ""}
                                 THEN call.args.tr_id
                                 ELSE call.raw.tr_id)
          /\ results[1].session_id = call.args.session_id

C17_Witness ==
    /\ variant = "sdk"
    /\ call.stage = "DONE"
    /\ InPath("AUDIT")
    /\ call.args.session_id = "session-123"
    /\ call.args.tr_id = "tx-001"
    /\ call.sent.tr_id = "tx-001"
    /\ call.raw.tr_id = "tx-returned"
    /\ results[1].tr_id = "tx-returned"
    /\ results[1].session_id = "session-123"

(***************************************************************************)
(* SpecRequest: scan of the sdk variant with every combination of metadata *)
(* parameters, context entries and config["metadata"] defaults.            *)
(***************************************************************************)
MetadataConfigs ==
    [app_name : {None, "config-app"}, app_user : {None, "config-user"},
     ai_model : {None, "config-model"}]

RequestArgs ==
    {[NoArgs EXCEPT !.app_name = app_name, !.app_user = app_user, !.ai_model = ai_model,
                    !.context = context] :
        app_name \in {None, "param-app"}, app_user \in {None, "", "param-user"},
        ai_model \in {None, "param-model"},
        context \in [app_name : {None, "context-app"}, app_user : {None, "context-user"},
                     ai_model : {None, "context-model"}]}

InitRequest ==
    /\ variant = "sdk"
    /\ config \in [rate_limit : {[enabled |-> FALSE, max_requests |-> 1, window_seconds |-> 1]},
                   retry : {[max_attempts |-> 0, backoff_seconds |-> 1]},
                   api_key : {"key"},
                   actions : {SdkDefaultActions},
                   logging : [enabled : {FALSE}],
                   metadata : MetadataConfigs]
    /\ clock = 0
    /\ rate_limits = EmptyDict
    /\ checks = <<>>
    /\ threads = EmptyDict
    /\ call = NoCall
    /\ path = <<>>
    /\ sleeps = <<>>
    /\ posts = <<>>
    /\ results = <<>>
    /\ audit_log = <<>>
    /\ parse_in = NoParse
    /\ parse_out = NoParse
    /\ merge_in = NoMerge
    /\ merge_out = NoMerge
    /\ handlers = setup_logging(variant, config.logging, <<>>)
    /\ scans = 0
    /\ audit = NoAudit
    /\ generated = <<>>

NextRequest ==
    \/ \E args \in RequestArgs : ScanCall("u1", "test", None, args)
    \/ RateCheck(clock)
    \/ SdkBuild
    \/ SdkTransport
    \/ SdkClassify
    \/ Audit

SpecRequest == InitRequest /\ [][NextRequest]_vars

\* The first of the values that is present (not None, not empty), else None.
RECURSIVE FirstPresent(_)
FirstPresent(values) ==
    IF values = <<>> THEN None
    ELSE IF Head(values) \notin {None, ""} THEN Head(values)
    ELSE FirstPresent(Tail(values))

\* The value of a metadata field that sync_scan was given (None: absent).
SentMetadata(f) == IF call.sent.metadata = NoObject THEN None ELSE call.sent.metadata[f]

\* C18: each metadata field sent with the scan request is the first present
\* of: the call parameter, the context dict's value, the config default.
C18_MetadataPrecedence ==
    (call.stage # "IDLE" /\ call.sent # NoObject) =>
        \A f \in MetadataFields :
            SentMetadata(f) =
                FirstPresent(<<call.args[f], call.args.context[f], config.metadata[f]>>)

\* C18 as amended: ... the first present of: the call parameter, the config
\* default; the context dict is not consulted.
C18_MetadataParamThenConfig ==
    (call.stage # "IDLE" /\ call.sent # NoObject) =>
        \A f \in MetadataFields :
            SentMetadata(f) = FirstPresent(<<call.args[f], config.metadata[f]>>)

C18_Witness ==
    /\ call.stage = "DONE"
    /\ call.sent # NoObject
    /\ call.args.app_name = "param-app"
    /\ config.metadata.app_name = "config-app"
    /\ call.args.ai_model = None
    /\ config.metadata.ai_model = "config-model"
    /\ call.args.app_user = ""
    /\ config.metadata.app_user = None
    /\ call.args.context.app_user = "context-user"
    /\ call.sent.metadata = [app_name |-> "param-app", app_user |-> None,
                             ai_model |-> "config-model"]

\* C19: with no API key configured, a scan call that the rate limiter admits
\* does not crash, makes no transport call, and returns WARN / LOW with a
\* configuration-error text.
C19_MissingCredentialWarnsLocally ==
    (call.stage # "IDLE" /\ config.api_key = "") =>
        /\ call.stage # "RAISED"
        /\ posts = <<>>
        /\ (call.stage = "DONE" /\ ~checks[1].rejected) =>
              /\ results[1].action = "WARN"
              /\ results[1].severity = "LOW"
              /\ results[1].categories = <<"configuration_error">>
              /\ results[1].error = "No API key configured"

\* C19 for the http variant, whose scan tests self.api_key.
C19_MissingCredentialWarnsLocallyHttp ==
    variant = "http" => C19_MissingCredentialWarnsLocally

\* C19 for the calls that pass content, where nothing hangs on what the SDK's
\* Content class does with empty content.
C19_MissingCredentialWithContent ==
    (call.stage # "IDLE" /\ ~EmptyContent) => C19_MissingCredentialWarnsLocally

(***************************************************************************)
(* SpecMerge: _deep_merge called on its own.  A dict is a function over    *)
(* the keys it may have, Absent standing where it has none; a value is a   *)
(* scalar, a list or a dict.                                               *)
(***************************************************************************)
OuterKeys == {"a", "b"}
InnerKeys == {"x", "y", "z"}

Absent == [kind |-> "absent"]
Scalar(v) == [kind |-> "scalar", v |-> v]
List(v) == [kind |-> "list", v |-> <<v>>]
Dict(items) == [kind |-> "dict", items |-> items]

\* The leaves of the base side and of the override side, distinct so that a
\* value tells the side it came from.
BaseLeaves == [x |-> 1, y |-> 2, z |-> 4]
OverrideLeaves == [x |-> 8, y |-> 9, z |-> 3]

InnerDicts(leaves) ==
    {[k \in InnerKeys |-> IF k \in S THEN Scalar(leaves[k]) ELSE Absent] :
        S \in SUBSET InnerKeys}

OuterDicts(leaves) ==
    [OuterKeys -> {Absent, Scalar(leaves.x), List(leaves.x)}
                  \cup {Dict(d) : d \in InnerDicts(leaves)}]

\* isinstance(value, dict)
IsDict(value) == value.kind = "dict"

\* _deep_merge(base, override): result = base.copy(), then for each key of
\* override either the recursive merge or the override's value.
RECURSIVE deep_merge_left_nested(_, _)
deep_merge_left_nested(base, override) ==
    [key \in DOMAIN base |->
        IF override[key] = Absent THEN base[key]
        ELSE IF base[key] # Absent /\ IsDict(base[key]) /\ IsDict(override[key])
             THEN Dict(deep_merge_left_nested(override[key].items, base[key].items))
        ELSE override[key]]

RECURSIVE deep_merge(_, _)
deep_merge(base, override) ==
    [key \in DOMAIN base |->
        IF override[key] = Absent THEN base[key]
        ELSE IF base[key] # Absent /\ IsDict(base[key]) /\ IsDict(override[key])
             THEN Dict(deep_merge(base[key].items, override[key].items))
        ELSE override[key]]

InitMerge ==
    /\ variant \in {"sdk", "http"}
    /\ config = [rate_limit |-> [enabled |-> FALSE, max_requests |-> 1, window_seconds |-> 1]]
    /\ clock = 0
    /\ rate_limits = EmptyDict
    /\ checks = <<>>
    /\ threads = EmptyDict
    /\ call = NoCall
    /\ path = <<>>
    /\ sleeps = <<>>
    /\ posts = <<>>
    /\ results = <<>>
    /\ audit_log = <<>>
    /\ parse_in = NoParse
    /\ parse_out = NoParse
    /\ merge_in \in [base : OuterDicts(BaseLeaves), override : OuterDicts(OverrideLeaves)]
    /\ merge_out = NoMerge
    /\ handlers = <<>>
    /\ scans = 0
    /\ audit = NoAudit
    /\ generated = <<>>

DeepMerge ==
    /\ merge_out = NoMerge
    /\ merge_out' = Dict(deep_merge(merge_in.base, merge_in.override))
    /\ UNCHANGED <<variant, config, clock, rate_limits, checks, threads, call, path,
                   sleeps, posts, results, audit_log, parse_in, parse_out, merge_in,
                   handlers, scans, audit, generated>>

NextMerge == DeepMerge

SpecMerge == InitMerge /\ [][NextMerge]_vars

\* merge({a: {x: 1, y: 2}}, {a: {y: 9, z: 3}}) and its result {a: {x: 1, y: 9, z: 3}}.
ExampleBase ==
    [a |-> Dict([x |-> Scalar(1), y |-> Scalar(2), z |-> Absent]), b |-> Absent]
ExampleOverride ==
    [a |-> Dict([x |-> Absent, y |-> Scalar(9), z |-> Scalar(3)]), b |-> Absent]
ExampleResult ==
    Dict([a |-> Dict([x |-> Scalar(1), y |-> Scalar(9), z |-> Scalar(3)]), b |-> Absent])

BothDicts(base, override, key) ==
    /\ base[key] # Absent
    /\ override[key] # Absent
    /\ base[key].kind = "dict"
    /\ override[key].kind = "dict"

\* C20: the result of _deep_merge(base, override) has, at each key, the
\* override's value when the override has the key and the base's value
\* otherwise (so the keys of either side are kept); where both sides hold a
\* dict the same is true one level down, and any other value of the override
\* replaces the base's as a whole.
C20_DeepMergeRightBiased ==
    merge_out.kind = "dict" =>
        LET base == merge_in.base
            override == merge_in.override
            result == merge_out.items
        IN  /\ \A key \in OuterKeys :
                  IF BothDicts(base, override, key)
                  THEN /\ result[key].kind = "dict"
                       /\ \A k \in InnerKeys :
                             result[key].items[k] =
                                 (IF override[key].items[k] # Absent
                                  THEN override[key].items[k]
                                  ELSE base[key].items[k])
                  ELSE result[key] =
                           (IF override[key] # Absent THEN override[key] ELSE base[key])
            /\ (base = ExampleBase /\ override = ExampleOverride) => merge_out = ExampleResult

C20_Witness ==
    /\ merge_in = [base |-> ExampleBase, override |-> ExampleOverride]
    /\ merge_out = ExampleResult

(***************************************************************************)
(* SpecLog: one process in which engines are constructed and scan, with    *)
(* logging enabled.  The logger "prisma_airs" and the log file belong to   *)
(* the process; every engine is built from the same configuration, and the *)
(* engine constructed last is the one that scans.                          *)
(***************************************************************************)
MaxEngines == 2       \* engines constructed in one process
MaxScans == 2         \* scan calls made in one process

LogConfigs(v) == {c \in ScanConfigs(v) : c.logging.enabled /\ c.retry.max_attempts <= 1}

InitLog ==
    /\ variant \in {"sdk", "http"}
    /\ config \in LogConfigs(variant)
    /\ clock = 0
    /\ rate_limits = EmptyDict
    /\ checks = <<>>
    /\ threads = EmptyDict
    /\ call = NoCall
    /\ path = <<>>
    /\ sleeps = <<>>
    /\ posts = <<>>
    /\ results = <<>>
    /\ audit_log = <<>>
    /\ parse_in = NoParse
    /\ parse_out = NoParse
    /\ merge_in = NoMerge
    /\ merge_out = NoMerge
    /\ handlers = <<>>
    /\ scans = 0
    /\ audit = NoAudit
    /\ generated = <<>>

\* PrismaAIRS(config_path): __init__ (sdk lines 69-99, http lines 64-75) sets
\* rate_limits of the new engine to an empty dict and calls _setup_logging.
Construct ==
    /\ call.stage \in {"IDLE", "DONE", "RAISED"}
    /\ Len(handlers) < MaxEngines
    /\ handlers' = setup_logging(variant, config.logging, handlers)
    /\ rate_limits' = EmptyDict
    /\ UNCHANGED <<variant, config, clock, checks, threads, call, path, sleeps, posts,
                   results, audit_log, parse_in, parse_out, merge_in, merge_out, scans,
                   audit, generated>>

\* scan(prompt, ...) called on the engine: as ScanCall, with the log file and
\* the count of calls kept.
LogScanCall(context_user, prompt, response, args) ==
    /\ handlers # <<>>
    /\ scans < MaxScans
    /\ call.stage \in {"IDLE", "DONE", "RAISED"}
    /\ call' = [stage |-> "RATE_CHECK", context_user |-> context_user,
                user_id |-> IF context_user = None THEN "unknown" ELSE context_user,
                prompt |-> prompt, response |-> response,
                args |-> args, sent |-> NoObject,
                attempt |-> 0, raw |-> NoObject, result |-> NoObject]
    /\ path' = <<"RATE_CHECK">>
    /\ checks' = <<>>
    /\ sleeps' = <<>>
    /\ posts' = <<>>
    /\ results' = <<>>
    /\ scans' = scans + 1
    /\ UNCHANGED <<clock, rate_limits, audit_log>>
    /\ ScanFrame

NextLog ==
    \/ Construct
    \/ LogScanCall("u1", "text", None, NoArgs)
    \/ \E now \in clock..MaxScanTime : RateCheck(now)
    \/ SdkBuild
    \/ HttpBuild
    \/ SdkTransport
    \/ HttpAttempt
    \/ HttpNoAttempt
    \/ SdkClassify
    \/ HttpClassify
    \/ Audit

SpecLog == InitLog /\ [][NextLog]_vars

AtRest == call.stage \in {"IDLE", "DONE", "RAISED"}

\* C21: with logging enabled, after any sequence of engine constructions and
\* scan calls in one process the number of audit records equals the number of
\* scan calls made (each call has exactly one record), and a record once
\* written is never changed or removed.
C21_OneRecordPerScan ==
    (config.logging.enabled /\ AtRest) => Len(audit_log) = scans

\* C21, "never more than one record for a call": with logging enabled the
\* audit log never holds more records than scan calls were made.  (It is
\* implied by C21_OneRecordPerScan wherever the engine is at rest.)
C21_AtMostOneRecordPerScan ==
    config.logging.enabled => Len(audit_log) <= scans

\* C21, "existing records are never changed or removed": the log only grows
\* at its end.
C21_AppendOnly ==
    [][/\ Len(audit_log') >= Len(audit_log)
       /\ SubSeq(audit_log', 1, Len(audit_log)) = audit_log]_vars

(***************************************************************************)
(* SpecAudit: one run of the configuration audit, started from main().     *)
(* variant "sdk" is src/src/prisma_airs_skill/audit.py, variant "http" is  *)
(* src/scripts/audit.py.  A check function returns (True, message),        *)
(* returns (False, message), or raises.                                    *)
(***************************************************************************)
CheckOutcomes == {"pass", "fail", "raise"}

\* The list run_audit builds (sdk lines 116-125, http lines 100-106).  The
\* http variant's run_audit has no quick parameter: its main() parses --quick
\* and does not pass it on.
AuditChecks(v, quick) ==
    IF v = "sdk"
    THEN <<"API Key", "Config File", "SDK Installed", "Dependencies", "Log Directory">>
         \o (IF ~quick THEN <<"API Connectivity">> ELSE <<>>)
    ELSE <<"API Key", "Config File", "Dependencies", "Log Directory", "API Connectivity">>

\* Lines 138-147 (sdk): the list a check that returned False is appended to.
\* The http variant (lines 118-121) has no warnings list.
FailureList(v, name) ==
    IF v = "sdk" /\ name = "Config File" THEN "warnings" ELSE "failed"

InitAudit ==
    /\ variant \in {"sdk", "http"}
    /\ config = EmptyDict
    /\ clock = 0
    /\ rate_limits = EmptyDict
    /\ checks = <<>>
    /\ threads = EmptyDict
    /\ call = NoCall
    /\ path = <<>>
    /\ sleeps = <<>>
    /\ posts = <<>>
    /\ results = <<>>
    /\ audit_log = <<>>
    /\ parse_in = NoParse
    /\ parse_out = NoParse
    /\ merge_in = NoMerge
    /\ merge_out = NoMerge
    /\ handlers = <<>>
    /\ scans = 0
    /\ audit = NoAudit
    /\ generated = <<>>

AuditFrame == UNCHANGED <<variant, config, clock, rate_limits, checks, threads, call, path,
                          sleeps, posts, results, audit_log, parse_in, parse_out,
                          merge_in, merge_out, handlers, scans, generated>>

\* main() with or without --quick: run_audit up to the loop.
AuditMain(quick) ==
    /\ audit.stage = "IDLE"
    /\ audit' = [stage |-> "LOOP", quick |-> quick,
                 todo |-> AuditChecks(variant, quick), ran |-> <<>>,
                 passed |-> <<>>, failed |-> <<>>, warnings |-> <<>>, code |-> None]
    /\ AuditFrame

\* One iteration of the loop (sdk lines 131-151, http lines 111-125).
AuditCheck(outcome) ==
    /\ audit.stage = "LOOP"
    /\ audit.todo # <<>>
    /\ LET name == Head(audit.todo)
           list == IF outcome = "pass" THEN "passed"
                   ELSE IF outcome = "raise" THEN "failed"
                   ELSE FailureList(variant, name)
       IN  audit' = [audit EXCEPT !.todo = Tail(@),
                                  !.ran = Append(@, [name |-> name, outcome |-> outcome]),
                                  ![list] = Append(@, name)]
    /\ AuditFrame

\* After the loop: the summary and the return value (sdk line 182, http 148).
AuditReturn ==
    /\ audit.stage = "LOOP"
    /\ audit.todo = <<>>
    /\ audit' = [audit EXCEPT !.stage = "DONE",
                              !.code = IF audit.failed = <<>> THEN 0 ELSE 1]
    /\ AuditFrame

NextAudit ==
    \/ \E quick \in BOOLEAN : AuditMain(quick)
    \/ \E outcome \in CheckOutcomes : AuditCheck(outcome)
    \/ AuditReturn

SpecAudit == InitAudit /\ [][NextAudit]_vars

\* The checks run_audit lists: the five (sdk: six) named checks, connectivity
\* last and only without quick.
ListedChecks(v, quick) ==
    IF v = "sdk"
    THEN <<"API Key", "Config File", "SDK Installed", "Dependencies", "Log Directory">>
         \o (IF quick THEN <<>> ELSE <<"API Connectivity">>)
    ELSE <<"API Key", "Config File", "Dependencies", "Log Directory">>
         \o (IF quick THEN <<>> ELSE <<"API Connectivity">>)

\* What C23 says of a finished run.
RunAuditAsSpecified ==
    LET ran == audit.ran
        names == [i \in 1..Len(ran) |-> ran[i].name]
    IN  /\ names = ListedChecks(variant, audit.quick)
        /\ (audit.code = 0) <=> (audit.failed = <<>>)
        /\ \A i \in 1..Len(ran) :
              /\ (ran[i].name = "Config File" /\ ran[i].outcome = "fail")
                    => /\ ran[i].name \in Elements(audit.warnings)
                       /\ ran[i].name \notin Elements(audit.failed)
              /\ (ran[i].name # "Config File" /\ ran[i].outcome = "fail")
                    => ran[i].name \in Elements(audit.failed) /\ audit.code = 1
              /\ ran[i].outcome = "raise"
                    => ran[i].name \in Elements(audit.failed) /\ audit.code = 1
        /\ audit.quick => "API Connectivity" \notin Elements(names)

\* C23: run_audit runs every listed check once, in order, and returns 0
\* exactly when no check was recorded as failed; a failing "Config File" check
\* is a warning and never makes the result non-zero, any other failing check
\* makes it 1, a check that raises is recorded as failed and the remaining
\* checks still run; with quick the connectivity check is not run.
C23_RunAudit ==
    audit.stage = "DONE" => RunAuditAsSpecified

\* C23 holds of src/src/prisma_airs_skill/audit.py.
C23_RunAuditSdk ==
    (variant = "sdk" /\ audit.stage = "DONE") => RunAuditAsSpecified

(***************************************************************************)
(* SpecScanId: _generate_scan_id (http variant) called on its own.  A      *)
(* content is a sequence of characters; the time is datetime.now(), in     *)
(* microseconds, which is the resolution isoformat() prints.               *)
(***************************************************************************)
MaxIds == 2           \* direct _generate_scan_id calls in one history
MaxMillis == 1        \* datetime.now() runs over the milliseconds 0..MaxMillis
ContentPrefix == 100  \* content[:100]
MicrosPerMilli == 1000

\* The instants the calls are made at: the first and the last microsecond of
\* each millisecond, and one in between.
Instants ==
    {ms * MicrosPerMilli + us : ms \in 0..MaxMillis, us \in {0, 1, MicrosPerMilli - 1}}

\* The contents: n times "x" followed by a tail, for n just below and at the
\* length of the prefix that is hashed.
Repeat(char, n) == [i \in 1..n |-> char]
IdContents ==
    {Repeat("x", n) \o tail : n \in {0, ContentPrefix - 1, ContentPrefix},
                              tail \in {<<>>, <<"a">>, <<"b">>}}

\* content[:n]
Take(content, n) == SubSeq(content, 1, IF Len(content) < n THEN Len(content) ELSE n)

\* Line 422: hashlib.sha256(f"{timestamp}:{content[:100]}".encode()).hexdigest()[:16].
\* The digest is taken to be different for different hashed strings, so it is
\* written as the string that is hashed: the timestamp and the prefix.
generate_scan_id(timestamp, content) ==
    [timestamp |-> timestamp, content |-> Take(content, ContentPrefix)]

InitScanId ==
    /\ variant = "http"
    /\ config = EmptyDict
    /\ clock = 0
    /\ rate_limits = EmptyDict
    /\ checks = <<>>
    /\ threads = EmptyDict
    /\ call = NoCall
    /\ path = <<>>
    /\ sleeps = <<>>
    /\ posts = <<>>
    /\ results = <<>>
    /\ audit_log = <<>>
    /\ parse_in = NoParse
    /\ parse_out = NoParse
    /\ merge_in = NoMerge
    /\ merge_out = NoMerge
    /\ handlers = <<>>
    /\ scans = 0
    /\ audit = NoAudit
    /\ generated = <<>>

\* _generate_scan_id(content) called at the instant now (lines 419-422).
GenerateScanId(content, now) ==
    /\ Len(generated) < MaxIds
    /\ clock' = now
    /\ generated' = Append(generated,
                           [now |-> now, content |-> content,
                            scan_id |-> generate_scan_id(now, content)])
    /\ UNCHANGED <<variant, config, rate_limits, checks, threads, call, path, sleeps,
                   posts, results, audit_log, parse_in, parse_out, merge_in, merge_out,
                   handlers, scans, audit>>

NextScanId ==
    \E content \in IdContents : \E now \in {t \in Instants : t >= clock} :
        GenerateScanId(content, now)

SpecScanId == InitScanId /\ [][NextScanId]_vars

SameMillisecond(t1, t2) == t1 \div MicrosPerMilli = t2 \div MicrosPerMilli

\* C26: two calls of _generate_scan_id made within the same millisecond with
\* different content never produce the same correlation identifier.
C26_NoCollisionSameMillisecond ==
    \A i, j \in 1..Len(generated) :
        (/\ i < j
         /\ SameMillisecond(generated[i].now, generated[j].now)
         /\ generated[i].content # generated[j].content)
            => generated[i].scan_id # generated[j].scan_id

\* What holds of the code: two calls whose contents differ within their first
\* 100 characters, or that are made at different microseconds, produce
\* different strings to hash.
C26_DistinctPrefixOrInstant ==
    \A i, j \in 1..Len(generated) :
        (/\ i < j
         /\ \/ generated[i].now # generated[j].now
            \/ Take(generated[i].content, ContentPrefix)
                  # Take(generated[j].content, ContentPrefix))
            => generated[i].scan_id # generated[j].scan_id

(***************************************************************************)
(* The claims about the rate limiter as scan uses it.                      *)
(***************************************************************************)
WindowOf(limits, user_id) == IF user_id \in DOMAIN limits THEN limits[user_id] ELSE <<>>

\* C27: rate windows are per identity.  An admission check for identity A
\* leaves the window of every other identity B as it was, and its outcome is
\* decided by A's own window alone (it rejects exactly when A's window holds
\* max_requests timestamps younger than window_seconds), so that A's
\* exhausted quota never rejects a call for B; a scan call that supplies no
\* user_id is checked under the identity "unknown".
C27_WindowsPerIdentity ==
    [][Len(checks') = Len(checks) + 1 =>
          LET c == checks'[Len(checks')]
          IN  /\ \A B \in Identities \ {c.user_id} :
                    /\ B \in DOMAIN rate_limits' <=> B \in DOMAIN rate_limits
                    /\ WindowOf(rate_limits', B) = WindowOf(rate_limits, B)
              /\ config.rate_limit.enabled =>
                    (c.rejected <=>
                        Len(Younger(WindowBefore, c.now)) >= config.rate_limit.max_requests)
              /\ call.stage = "RATE_CHECK" =>
                    /\ c.user_id = call.user_id
                    /\ call.context_user = None => c.user_id = "unknown"
                    /\ call.context_user # None => c.user_id = call.context_user]_vars

\* Identity u1 has used up its quota, and a scan call made without user_id at
\* the same time was checked as "unknown" and admitted.
C27_Witness ==
    /\ config.rate_limit.enabled
    /\ config.rate_limit.max_requests = 1
    /\ call.stage \notin {"IDLE", "RATE_CHECK"}
    /\ call.context_user = None
    /\ checks = <<[user_id |-> "unknown", now |-> clock, rejected |-> FALSE]>>
    /\ "u1" \in DOMAIN rate_limits
    /\ rate_limits["u1"] = <<clock>>
    /\ rate_limits["unknown"] = <<clock>>

\* C28: with rate limiting enabled, immediately after each of any sequence of
\* sequential admission checks the checked identity's window holds at most
\* max_requests timestamps (none when max_requests is 0), each of them younger
\* than window_seconds at the time of that check.
C28_WindowBoundedAndYoung ==
    (config.rate_limit.enabled /\ checks # <<>>) =>
        LET c == checks[Len(checks)]
            window == rate_limits[c.user_id]
        IN  /\ Len(window) <= config.rate_limit.max_requests
            /\ \A i \in 1..Len(window) : c.now - window[i] < config.rate_limit.window_seconds

\* After checks of both identities at several times, the last check found the
\* identity's window full and rejected, an older timestamp having been evicted
\* before.
C28_Witness ==
    /\ config.rate_limit.enabled
    /\ config.rate_limit.max_requests >= 1
    /\ Len(checks) = MaxChecks
    /\ \A user_id \in Identities : ChecksOf(user_id) # {}
    /\ LET c == checks[Len(checks)]
       IN  /\ c.rejected
           /\ Len(rate_limits[c.user_id]) = config.rate_limit.max_requests
           /\ \E i \in ChecksOf(c.user_id) :
                 /\ ~checks[i].rejected
                 /\ checks[i].now \notin Elements(rate_limits[c.user_id])

\* The scan call in progress has passed the rate check of an enabled limiter.
PassedRateCheck ==
    /\ config.rate_limit.enabled
    /\ call.stage \notin {"IDLE", "RATE_CHECK"}
    /\ Len(checks) = 1
    /\ ~checks[1].rejected

\* How the scan call that has returned, or was left, failed.
FailedScan ==
    \/ call.stage = "RAISED"
    \/ /\ call.stage = "DONE"
       /\ call.result.categories \in {<<"configuration_error">>, <<"api_error">>}

\* C29: a scan call that passes the rate check consumes exactly one slot of
\* its identity's window (the rate check appends the call's timestamp, once,
\* to the pruned window) and keeps it whatever happens afterwards: no later
\* step of the call, whether it ends in a configuration error, a transport
\* failure or an exception, changes the window map, so the timestamp of a
\* failed scan stays recorded.
C29_SlotConsumedNeverRefunded ==
    /\ [](PassedRateCheck =>
             LET window == rate_limits[call.user_id]
             IN  /\ window # <<>>
                 /\ window[Len(window)] = checks[1].now)
    /\ [][/\ (call.stage = "RATE_CHECK" /\ call'.stage = "BUILD" /\ config.rate_limit.enabled)
               => rate_limits'[call.user_id] = Younger(WindowBefore, clock') \o <<clock'>>
          /\ call.stage # "RATE_CHECK" => rate_limits' = rate_limits]_vars

\* A call that passed the rate check has failed (its result is the
\* configuration error or the api error, or an exception left scan) and its
\* timestamp fills the identity's quota of one request.
C29_Witness ==
    /\ PassedRateCheck
    /\ FailedScan
    /\ config.rate_limit.max_requests = 1
    /\ rate_limits[call.user_id] = <<checks[1].now>>

(***************************************************************************)
(* The claim about the end of the retry loop of _make_request.             *)
(***************************************************************************)
\* _make_request has returned, or was left by an exception.
MakeRequestEnded == call.stage \in {"CLASSIFY", "RAISED"}

\* C30: _make_request stops at the first successful attempt.  If attempt k is
\* the first to succeed, exactly k attempts are made (the k - 1 before it
\* failed), the body of attempt k is returned as it came, not an error dict
\* made by _make_request, and no attempt and no wait follows (k - 1 waits were
\* made).  Whatever fails, no more than max_attempts attempts are made, and
\* the call comes to an end.
C30_StopsAtFirstSuccess ==
    /\ [](/\ Len(posts) <= config.retry.max_attempts
          /\ \A k \in 1..Len(posts) :
                posts[k] = "ok" =>
                    /\ k = Len(posts)
                    /\ \A i \in 1..(k - 1) : posts[i] \in FailedOutcomes
                    /\ Len(sleeps) = k - 1
                    /\ call.stage = "CLASSIFY"
                    /\ call.raw \in HttpBodies
                    /\ call.raw.kind = "object" => call.raw.origin = "remote")
    /\ <>MakeRequestEnded

\* The third attempt of four was the first to succeed: three attempts and two
\* waits were made and the body was returned.
C30_Witness ==
    /\ config.retry.max_attempts = 4
    /\ call.stage = "CLASSIFY"
    /\ Len(posts) = 3
    /\ posts[1] \in FailedOutcomes
    /\ posts[2] \in FailedOutcomes
    /\ posts[3] = "ok"
    /\ Len(sleeps) = 2
    /\ call.raw = HttpBenign

=============================================================================
